---- MODULE Spec2Model ----
(***************************************************************************)
(* Spanish verb trainer: the conjugation engine, answer normalisation,     *)
(* login, practice and statistics of src/src/App.tsx, and the earlier      *)
(* single-file App of src/unnamed/part_000.                                *)
(*                                                                         *)
(* A JavaScript string is modelled as the sequence of its characters       *)
(* (one-character TLA+ strings); "" is the empty sequence.  Object keys    *)
(* (tense keys, person keys, verb types, tags) are only ever compared, so  *)
(* they are plain TLA+ strings.                                            *)
(***************************************************************************)
EXTENDS Integers, Sequences, FiniteSets, TLC

VARIABLES
  \* one call of conjugate: its arguments and its result
  callVerb, callTense, callPerson, callResult,
  \* normalize applied to a string, and to its own result
  normInput, normOnce, normTwice,
  \* App (App.tsx 210-213): verb bank, student roster, attempt log, active student
  verbs, students, sessions, activeStudent,
  \* LoginPanel (App.tsx 251-252)
  name, classCode,
  \* PracticePanel (App.tsx 290-302)
  selectedTenses, selectedPersons, filterTags, current, answer, feedback,
  \* what StatsPanel and TeacherDashboard show (App.tsx 386-390, 432-445)
  statsView, dashboardView,
  \* the earlier App of part_000 (part_000 56-61); its activeStudent, verb,
  \* answer and feedback carry the prefix draft
  draftActiveStudent, tenses, draftVerb, draftPersonIndex, draftAnswer, draftFeedback,
  \* the browser's localStorage, what App's state initialisers loaded from it
  \* (App.tsx 187-195, 210-213) and whether the application is on screen
  localStorage, loaded, appStatus,
  \* SettingsPanel and VerbManager (App.tsx 493, 535-536)
  showManager, query, editing

conjVars == <<callVerb, callTense, callPerson, callResult>>
normVars == <<normInput, normOnce, normTwice>>
appVars == <<verbs, students, sessions, activeStudent>>
loginVars == <<name, classCode>>
practiceVars == <<selectedTenses, selectedPersons, filterTags, current, answer, feedback>>
viewVars == <<statsView, dashboardView>>
draftVars == <<draftActiveStudent, tenses, draftVerb, draftPersonIndex, draftAnswer, draftFeedback>>
loadVars == <<localStorage, loaded, appStatus>>
managerVars == <<showManager, query, editing>>
vars == <<conjVars, normVars, appVars, loginVars, practiceVars, viewVars, draftVars, loadVars,
          managerVars>>

(***************************************************************************)
(* JavaScript values                                                       *)
(***************************************************************************)
\* the empty string ""
EmptyStr == <<>>

\* undefined, as the result of a property lookup that finds nothing; a
\* one-element sequence whose element is no character, so that it compares
\* with strings
Undefined == <<"undefined">>

\* the key under which JavaScript looks up obj[undefined]
UndefinedKey == "undefined"

\* truthiness of a string-or-undefined value: if (customForm), if (!trimmed)
Truthy(v) == v # Undefined /\ v # EmptyStr

\* an object without own properties: {}
EmptyObject == <<>>

(***************************************************************************)
(* Types (App.tsx 38-53)                                                   *)
(***************************************************************************)
PERSONS == <<"yo", "tú", "él/ella/usted", "nosotros", "vosotros", "ellos/ellas/ustedes">>

TENSES == <<"presente", "preterito", "imperfecto", "futuro", "condicional">>

\* the set of the elements of a sequence
Range(seq) == {seq[i] : i \in DOMAIN seq}

\* an object keyed by the six person keys, from the six forms in PERSONS order
PersonForms(forms) == [p \in Range(PERSONS) |-> forms[CHOOSE i \in DOMAIN PERSONS : PERSONS[i] = p]]

(***************************************************************************)
(* Conjugation engine (App.tsx 126-177)                                    *)
(***************************************************************************)
endings ==
  "presente" :> ("-ar" :> <<<<"o">>, <<"a", "s">>, <<"a">>, <<"a", "m", "o", "s">>, <<"á", "i", "s">>, <<"a", "n">>>>
       @@ "-er" :> <<<<"o">>, <<"e", "s">>, <<"e">>, <<"e", "m", "o", "s">>, <<"é", "i", "s">>, <<"e", "n">>>>
       @@ "-ir" :> <<<<"o">>, <<"e", "s">>, <<"e">>, <<"i", "m", "o", "s">>, <<"í", "s">>, <<"e", "n">>>>)
  @@ "preterito" :> ("-ar" :> <<<<"é">>, <<"a", "s", "t", "e">>, <<"ó">>, <<"a", "m", "o", "s">>, <<"a", "s", "t", "e", "i", "s">>, <<"a", "r", "o", "n">>>>
       @@ "-er" :> <<<<"í">>, <<"i", "s", "t", "e">>, <<"i", "ó">>, <<"i", "m", "o", "s">>, <<"i", "s", "t", "e", "i", "s">>, <<"i", "e", "r", "o", "n">>>>
       @@ "-ir" :> <<<<"í">>, <<"i", "s", "t", "e">>, <<"i", "ó">>, <<"i", "m", "o", "s">>, <<"i", "s", "t", "e", "i", "s">>, <<"i", "e", "r", "o", "n">>>>)
  @@ "imperfecto" :> ("-ar" :> <<<<"a", "b", "a">>, <<"a", "b", "a", "s">>, <<"a", "b", "a">>, <<"á", "b", "a", "m", "o", "s">>, <<"a", "b", "a", "i", "s">>, <<"a", "b", "a", "n">>>>
       @@ "-er" :> <<<<"í", "a">>, <<"í", "a", "s">>, <<"í", "a">>, <<"í", "a", "m", "o", "s">>, <<"í", "a", "i", "s">>, <<"í", "a", "n">>>>
       @@ "-ir" :> <<<<"í", "a">>, <<"í", "a", "s">>, <<"í", "a">>, <<"í", "a", "m", "o", "s">>, <<"í", "a", "i", "s">>, <<"í", "a", "n">>>>)
  @@ "futuro" :> ("all" :> <<<<"é">>, <<"á", "s">>, <<"á">>, <<"e", "m", "o", "s">>, <<"é", "i", "s">>, <<"á", "n">>>>)
  @@ "condicional" :> ("all" :> <<<<"í", "a">>, <<"í", "a", "s">>, <<"í", "a">>, <<"í", "a", "m", "o", "s">>, <<"í", "a", "i", "s">>, <<"í", "a", "n">>>>)

\* Array.prototype.findIndex over PERSONS: the 0-based position, -1 when absent
findIndex(personKey) ==
  IF \E i \in DOMAIN PERSONS : PERSONS[i] = personKey
    THEN (CHOOSE i \in DOMAIN PERSONS : PERSONS[i] = personKey) - 1
    ELSE -1

\* String.prototype.toLowerCase on one character, over the letters of Spanish
UpperChars == <<"A", "B", "C", "D", "E", "F", "G", "H", "I", "J", "K", "L", "M", "N", "O", "P", "Q", "R", "S", "T", "U", "V", "W", "X", "Y", "Z", "Á", "É", "Í", "Ó", "Ú", "Ü", "Ñ">>

LowerChars == <<"a", "b", "c", "d", "e", "f", "g", "h", "i", "j", "k", "l", "m", "n", "o", "p", "q", "r", "s", "t", "u", "v", "w", "x", "y", "z", "á", "é", "í", "ó", "ú", "ü", "ñ">>

toLowerCaseChar(c) ==
  IF \E i \in DOMAIN UpperChars : UpperChars[i] = c
    THEN LowerChars[CHOOSE i \in DOMAIN UpperChars : UpperChars[i] = c]
    ELSE c

\* String.prototype.toLowerCase
toLowerCase(s) == [i \in DOMAIN s |-> toLowerCaseChar(s[i])]

\* mutant of stripEnding: the pattern without its i flag
stripEnding_caseSensitive(infinitive) ==
  LET n == Len(infinitive) IN
  IF n >= 2 /\ infinitive[n - 1] \in {"a", "e", "i"} /\ infinitive[n] = "r"
    THEN SubSeq(infinitive, 1, n - 2)
    ELSE infinitive

\* infinitive.replace(/(ar|er|ir)$/i, ""): drops a final ar, er or ir, in either case
stripEnding(infinitive) ==
  LET n == Len(infinitive) IN
  IF n >= 2 /\ toLowerCaseChar(infinitive[n - 1]) \in {"a", "e", "i"}
            /\ toLowerCaseChar(infinitive[n]) = "r"
    THEN SubSeq(infinitive, 1, n - 2)
    ELSE infinitive

\* mutant of regularConjugate: futuro and condicional built on the stem
regularConjugate_stemForFuture(infinitive, type, tense, personKey) ==
  LET personIndex == findIndex(personKey) IN
  IF personIndex = -1 THEN EmptyStr
  ELSE IF tense = "futuro" \/ tense = "condicional"
    THEN stripEnding(infinitive) \o endings[tense]["all"][personIndex + 1]
  ELSE IF ~(tense \in DOMAIN endings /\ type \in DOMAIN endings[tense]) THEN EmptyStr
  ELSE stripEnding(infinitive) \o endings[tense][type][personIndex + 1]

regularConjugate(infinitive, type, tense, personKey) ==
  LET personIndex == findIndex(personKey) IN
  IF personIndex = -1 THEN EmptyStr
  ELSE IF tense = "futuro" \/ tense = "condicional"
    THEN infinitive \o endings[tense]["all"][personIndex + 1]
  ELSE LET stem == stripEnding(infinitive) IN
       \* const list = endings[tense]?.[type]; if (!list) return ""
       IF ~(tense \in DOMAIN endings /\ type \in DOMAIN endings[tense]) THEN EmptyStr
       ELSE stem \o endings[tense][type][personIndex + 1]

\* verb?.custom?.[tense]?.[personKey]
customFormOf(verb, tense, personKey) ==
  IF tense \in DOMAIN verb.custom /\ personKey \in DOMAIN verb.custom[tense]
    THEN verb.custom[tense][personKey]
    ELSE Undefined

\* mutant of conjugate: the rule is tried before the custom form
conjugate_rulesFirst(verb, tense, personKey) ==
  IF verb.type = "-ar" \/ verb.type = "-er" \/ verb.type = "-ir"
    THEN regularConjugate(verb.infinitive, verb.type, tense, personKey)
  ELSE IF Truthy(customFormOf(verb, tense, personKey)) THEN customFormOf(verb, tense, personKey)
  ELSE EmptyStr

\* mutant of conjugate: every verb without a custom form goes to the rule
conjugate_guessesIrregular(verb, tense, personKey) ==
  IF Truthy(customFormOf(verb, tense, personKey)) THEN customFormOf(verb, tense, personKey)
  ELSE regularConjugate(verb.infinitive, verb.type, tense, personKey)

conjugate(verb, tense, personKey) ==
  LET customForm == customFormOf(verb, tense, personKey) IN
  IF Truthy(customForm) THEN customForm
  ELSE IF verb.type = "-ar" \/ verb.type = "-er" \/ verb.type = "-ir"
    THEN regularConjugate(verb.infinitive, verb.type, tense, personKey)
  ELSE EmptyStr

(***************************************************************************)
(* Answer normalisation (App.tsx 684-686)                                  *)
(***************************************************************************)
\* the characters String.prototype.trim strips and the pattern \s matches
IsWhitespace(c) == c \in {" ", "\t", "\n"}

RECURSIVE trimStart(_)
trimStart(s) == IF s # EmptyStr /\ IsWhitespace(Head(s)) THEN trimStart(Tail(s)) ELSE s

RECURSIVE trimEnd(_)
trimEnd(s) ==
  IF s # EmptyStr /\ IsWhitespace(s[Len(s)]) THEN trimEnd(SubSeq(s, 1, Len(s) - 1)) ELSE s

\* String.prototype.trim
trim(s) == trimEnd(trimStart(s))

\* mutant of collapseWhitespace: .replace(/\s\s/g, " "), pairs instead of runs
RECURSIVE collapseWhitespace_pairs(_)
collapseWhitespace_pairs(s) ==
  IF s = EmptyStr THEN EmptyStr
  ELSE IF Len(s) >= 2 /\ IsWhitespace(s[1]) /\ IsWhitespace(s[2])
    THEN <<" ">> \o collapseWhitespace_pairs(SubSeq(s, 3, Len(s)))
  ELSE <<s[1]>> \o collapseWhitespace_pairs(Tail(s))

\* .replace(/\s+/g, " "): every maximal run of whitespace becomes one space
RECURSIVE collapseWhitespace(_)
collapseWhitespace(s) ==
  IF s = EmptyStr THEN EmptyStr
  ELSE IF IsWhitespace(s[1]) THEN <<" ">> \o collapseWhitespace(trimStart(s))
  ELSE <<s[1]>> \o collapseWhitespace(Tail(s))

\* String(s || ""): undefined and "" both give ""
stringOrEmpty(s) == IF Truthy(s) THEN s ELSE EmptyStr

\* a normalisation that also strips the acute accent of a vowel
normalize_foldsAccents(s) ==
  LET plain(c) == CASE c = "á" -> "a" [] c = "é" -> "e" [] c = "í" -> "i"
                    [] c = "ó" -> "o" [] c = "ú" -> "u" [] OTHER -> c
      lowered  == toLowerCase(trim(stringOrEmpty(s)))
  IN collapseWhitespace([k \in DOMAIN lowered |-> plain(lowered[k])])

normalize(s) == collapseWhitespace(toLowerCase(trim(stringOrEmpty(s))))

(***************************************************************************)
(* JavaScript Number arithmetic for the accuracy percentage                *)
(* Math.round((correct / total) * 100) (App.tsx 390, 445).  A Number is an *)
(* IEEE 754 double: the quotient and the product are each rounded to 53    *)
(* significant bits, ties to even.  A finite non-negative double is kept   *)
(* exactly, as [digits, scale]: the value is the integer whose digits in   *)
(* base 2^LimbBits are given, most significant first, divided by 2^scale.  *)
(***************************************************************************)
\* significant bits of a double (IEEE 754 binary64)
Precision == 53

\* bits per digit of the long integers that hold a significand
LimbBits == 13

Base == 2 ^ LimbBits

zeros(n) == [i \in 1..n |-> 0]

RECURSIVE stripLeadingZeros(_)
stripLeadingZeros(digits) ==
  IF digits # <<>> /\ Head(digits) = 0 THEN stripLeadingZeros(Tail(digits)) ELSE digits

\* digits + 1
RECURSIVE increment(_)
increment(digits) ==
  IF digits = <<>> THEN <<1>>
  ELSE IF digits[Len(digits)] < Base - 1
    THEN SubSeq(digits, 1, Len(digits) - 1) \o <<digits[Len(digits)] + 1>>
  ELSE increment(SubSeq(digits, 1, Len(digits) - 1)) \o <<0>>

\* digits * k + carry, for a small k
RECURSIVE mulSmall(_, _, _)
mulSmall(digits, k, carry) ==
  IF digits = <<>> THEN (IF carry = 0 THEN <<>> ELSE <<carry>>)
  ELSE LET n == Len(digits)
           v == digits[n] * k + carry
       IN mulSmall(SubSeq(digits, 1, n - 1), k, v \div Base) \o <<v % Base>>

\* quotient and remainder of (rem * Base^Len(digits) + digits) by a small d, rem < d
RECURSIVE divSmall(_, _, _)
divSmall(digits, d, rem) ==
  IF digits = <<>> THEN [quot |-> <<>>, rem |-> rem]
  ELSE LET cur  == rem * Base + Head(digits)
           rest == divSmall(Tail(digits), d, cur % d)
       IN [quot |-> <<cur \div d>> \o rest.quot, rem |-> rest.rem]

\* digits * 2^n
shiftLeft(digits, n) == mulSmall(digits, 2 ^ (n % LimbBits), 0) \o zeros(n \div LimbBits)

\* floor(digits / 2^n)
shiftRight(digits, n) ==
  LET whole == n \div LimbBits IN
  IF whole >= Len(digits) THEN <<>>
  ELSE stripLeadingZeros(divSmall(SubSeq(digits, 1, Len(digits) - whole), 2 ^ (n % LimbBits), 0).quot)

isOdd(digits) == digits # <<>> /\ digits[Len(digits)] % 2 = 1

\* the number of bits of a digit below Base
bitLengthSmall(x) == CHOOSE k \in 0..LimbBits : x < 2 ^ k /\ (k = 0 \/ x >= 2 ^ (k - 1))

\* the number of bits of a long integer without leading zeros
bitLength(digits) ==
  IF digits = <<>> THEN 0 ELSE (Len(digits) - 1) * LimbBits + bitLengthSmall(Head(digits))

RECURSIVE toInt(_)
toInt(digits) ==
  IF digits = <<>> THEN 0 ELSE toInt(SubSeq(digits, 1, Len(digits) - 1)) * Base + digits[Len(digits)]

\* an exact value rounded to Precision significant bits, ties to even; the
\* product below has fewer than LimbBits bits too many
roundToDouble(x) ==
  LET sig  == stripLeadingZeros(x.digits)
      drop == bitLength(sig) - Precision
  IN IF drop <= 0 THEN [digits |-> sig, scale |-> x.scale]
     ELSE LET cut  == divSmall(sig, 2 ^ drop, 0)
              kept == stripLeadingZeros(cut.quot)
              half == 2 ^ (drop - 1)
              up   == cut.rem > half \/ (cut.rem = half /\ isOdd(kept))
          IN [digits |-> IF up THEN increment(kept) ELSE kept, scale |-> x.scale - drop]

\* the number of zero bits of a / d after the binary point before its first one (0 < a < d)
RECURSIVE leadingZeros(_, _)
leadingZeros(a, d) == IF 2 * a >= d THEN 0 ELSE 1 + leadingZeros(2 * a, d)

\* a / d as a double, for integers 0 <= a <= d, 0 < d < Base
divide(a, d) ==
  IF a = 0 THEN [digits |-> <<>>, scale |-> 0]
  ELSE IF a = d THEN [digits |-> <<1>>, scale |-> 0]
  ELSE LET s    == leadingZeros(a, d) + Precision
           q    == divSmall(shiftLeft(<<a>>, s), d, 0)
           quot == stripLeadingZeros(q.quot)
           up   == 2 * q.rem > d \/ (2 * q.rem = d /\ isOdd(quot))
       IN [digits |-> IF up THEN increment(quot) ELSE quot, scale |-> s]

\* x * 100 as a double
times100(x) == roundToDouble([digits |-> mulSmall(x.digits, 100, 0), scale |-> x.scale])

\* Math.round of a non-negative double below Base: floor(x + 0.5), exactly;
\* floor(x + 1/2) = floor((floor(2x) + 1) / 2)
mathRound(x) ==
  IF x.scale = 0 THEN toInt(x.digits)
  ELSE (toInt(shiftRight(x.digits, x.scale - 1)) + 1) \div 2

\* total ? Math.round((correct / total) * 100) : 0
accuracy(correct, total) ==
  IF total = 0 THEN 0 ELSE mathRound(times100(divide(correct, total)))

(***************************************************************************)
(* Starter verb bank (App.tsx 55-124)                                      *)
(***************************************************************************)
SerCustom ==
  "presente" :> PersonForms(<<<<"s", "o", "y">>, <<"e", "r", "e", "s">>, <<"e", "s">>, <<"s", "o", "m", "o", "s">>, <<"s", "o", "i", "s">>, <<"s", "o", "n">>>>)
  @@ "preterito" :> PersonForms(<<<<"f", "u", "i">>, <<"f", "u", "i", "s", "t", "e">>, <<"f", "u", "e">>, <<"f", "u", "i", "m", "o", "s">>, <<"f", "u", "i", "s", "t", "e", "i", "s">>, <<"f", "u", "e", "r", "o", "n">>>>)
  @@ "imperfecto" :> PersonForms(<<<<"e", "r", "a">>, <<"e", "r", "a", "s">>, <<"e", "r", "a">>, <<"é", "r", "a", "m", "o", "s">>, <<"e", "r", "a", "i", "s">>, <<"e", "r", "a", "n">>>>)

IrCustom ==
  "presente" :> PersonForms(<<<<"v", "o", "y">>, <<"v", "a", "s">>, <<"v", "a">>, <<"v", "a", "m", "o", "s">>, <<"v", "a", "i", "s">>, <<"v", "a", "n">>>>)
  @@ "preterito" :> PersonForms(<<<<"f", "u", "i">>, <<"f", "u", "i", "s", "t", "e">>, <<"f", "u", "e">>, <<"f", "u", "i", "m", "o", "s">>, <<"f", "u", "i", "s", "t", "e", "i", "s">>, <<"f", "u", "e", "r", "o", "n">>>>)
  @@ "imperfecto" :> PersonForms(<<<<"i", "b", "a">>, <<"i", "b", "a", "s">>, <<"i", "b", "a">>, <<"í", "b", "a", "m", "o", "s">>, <<"i", "b", "a", "i", "s">>, <<"i", "b", "a", "n">>>>)

Verb(infinitive, meaning, type, tags, custom) ==
  [infinitive |-> infinitive, meaning |-> meaning, type |-> type, tags |-> tags, custom |-> custom]

STARTER_VERBS == <<
  Verb(<<"h", "a", "b", "l", "a", "r">>, <<"t", "o", " ", "s", "p", "e", "a", "k">>, "-ar", <<"regular">>, EmptyObject),
  Verb(<<"c", "o", "m", "e", "r">>, <<"t", "o", " ", "e", "a", "t">>, "-er", <<"regular">>, EmptyObject),
  Verb(<<"v", "i", "v", "i", "r">>, <<"t", "o", " ", "l", "i", "v", "e">>, "-ir", <<"regular">>, EmptyObject),
  Verb(<<"s", "e", "r">>, <<"t", "o", " ", "b", "e">>, "irregular", <<"irregular", "core">>, SerCustom),
  Verb(<<"i", "r">>, <<"t", "o", " ", "g", "o">>, "irregular", <<"irregular", "core">>, IrCustom) >>

\* the verb VerbManager.addBlank puts in front of the bank (App.tsx 540-543)
BlankVerb == Verb(EmptyStr, EmptyStr, "-ar", <<>>, EmptyObject)

\* IrregularEditor.setPerson (App.tsx 606-609):
\* { ...value, [tense]: { ...(value[tense] || {}), [personKey]: form } }
setPerson(value, tense, personKey, form) ==
  LET old == IF tense \in DOMAIN value THEN value[tense] ELSE EmptyObject
  IN (tense :> ((personKey :> form) @@ old)) @@ value

(***************************************************************************)
(* Conjugation calls (SpecConj): conjugate as a pure function.  A call is drawn from verbs the *)
(* verb manager can hold (an infinitive typed into the row, a type chosen  *)
(* in the select, cells set in the irregular editor), a tense and a person,*)
(* and the Conjugate step applies conjugate to it.                         *)
(***************************************************************************)
\* no call made yet
Pending == <<"pending">>

VerbTypes == {"-ar", "-er", "-ir", "irregular"}

InfinitiveInputs ==
  { <<"h", "a", "b", "l", "a", "r">>, <<"c", "o", "m", "e", "r">>, <<"v", "i", "v", "i", "r">>, <<"s", "e", "r">>, <<"i", "r">>, <<"H", "A", "B", "L", "A", "R">>,
    EmptyStr, <<"r">>, <<"s", "o", "l">> }

CustomInputs ==
  { EmptyObject,
    SerCustom,
    setPerson(EmptyObject, "presente", "yo", <<"s", "o", "y">>),
    setPerson(setPerson(EmptyObject, "presente", "yo", <<"s", "o", "y">>), "presente", "yo", EmptyStr),
    setPerson(EmptyObject, "futuro", "nosotros", <<"s", "e", "r", "e", "m", "o", "s">>) }

VerbInputs ==
  { Verb(inf, EmptyStr, ty, <<>>, cu) : inf \in InfinitiveInputs, ty \in VerbTypes, cu \in CustomInputs }
    \cup Range(STARTER_VERBS) \cup {BlankVerb}

ConjInit ==
  /\ callVerb \in VerbInputs
  /\ callTense \in Range(TENSES)
  /\ callPerson \in Range(PERSONS)
  /\ callResult = Pending

\* the state of the conjugation call in the specifications that make none
ConjIdle ==
  /\ callVerb = BlankVerb
  /\ callTense = "presente"
  /\ callPerson = "yo"
  /\ callResult = Pending

Conjugate ==
  /\ callResult = Pending
  /\ callResult' = conjugate(callVerb, callTense, callPerson)
  /\ UNCHANGED <<callVerb, callTense, callPerson>>

(***************************************************************************)
(* Normalisation runs (SpecNorm): normalize as a pure function, applied to every string up to   *)
(* MaxStrLen characters over NormAlphabet, and then to its own result.     *)
(***************************************************************************)
MaxStrLen == 5

NormAlphabet == {"a", "Ó", " ", "\t"}

StringsUpTo(n) == UNION {[1..k -> NormAlphabet] : k \in 0..n}

NormInit ==
  /\ normInput \in StringsUpTo(MaxStrLen)
  /\ normOnce = Pending
  /\ normTwice = Pending

\* the state of the normalisation in the specifications that do not run it
NormIdle ==
  /\ normInput = EmptyStr
  /\ normOnce = Pending
  /\ normTwice = Pending

NormalizeOnce ==
  /\ normOnce = Pending
  /\ normOnce' = normalize(normInput)
  /\ UNCHANGED <<normInput, normTwice>>

NormalizeAgain ==
  /\ normOnce # Pending
  /\ normTwice = Pending
  /\ normTwice' = normalize(normOnce)
  /\ UNCHANGED <<normInput, normOnce>>

(***************************************************************************)
(* The application (App.tsx 208-383, 634-637, 680-682): App's four pieces  *)
(* of state, the login panel's two fields and the practice panel's state.  *)
(***************************************************************************)
\* null: no active student, no current question, no feedback
Null == [null |-> TRUE]

\* the state after construction, with nothing persisted in localStorage:
\* loadLS returns each fallback, and the practice panel's mount effect has
\* drawn the first question
InitialTenses == <<"presente", "preterito">>

\* Math.random() in tenths: r stands for the number r / RandomScale of [0, 1)
RandomScale == 10

\* arr[Math.floor(Math.random() * arr.length)]; undefined for an empty array
randomChoice(arr, r) ==
  LET i == (r * Len(arr)) \div RandomScale
  IN IF i + 1 \in DOMAIN arr THEN arr[i + 1] ELSE UndefinedKey

\* verbs.filter((v) => filterTags.length === 0 || v.tags?.some((t) => filterTags.includes(t)))
poolOf(bank, tags) ==
  SelectSeq(bank, LAMBDA v : Len(tags) = 0 \/ \E i \in DOMAIN v.tags : v.tags[i] \in Range(tags))

\* the question pickNext draws, from three values of Math.random()
drawQuestion(bank, tags, tenseSel, personSel, r1, r2, r3) ==
  [verb   |-> randomChoice(poolOf(bank, tags), r3),
   tense  |-> randomChoice(tenseSel, r1),
   person |-> randomChoice(personSel, r2)]

\* cur.includes(key) ? cur.filter((k) => k !== key) : [...cur, key]
toggle(cur, key) ==
  IF key \in Range(cur) THEN SelectSeq(cur, LAMBDA k : k # key) ELSE Append(cur, key)

\* mutant of findStudent: the names are compared as they are written
findStudent_caseSensitive(roster, trimmed, code) ==
  LET hits == {i \in DOMAIN roster : roster[i].name = trimmed /\ roster[i].classCode = code}
  IN IF hits = {} THEN Null ELSE roster[CHOOSE i \in hits : \A j \in hits : i <= j]

\* students.find((s) => s.name.toLowerCase() === trimmed.toLowerCase() && s.classCode === classCode)
findStudent(roster, trimmed, code) ==
  LET hits == {i \in DOMAIN roster :
                 toLowerCase(roster[i].name) = toLowerCase(trimmed) /\ roster[i].classCode = code}
  IN IF hits = {} THEN Null ELSE roster[CHOOSE i \in hits : \A j \in hits : i <= j]

\* the record onSubmit builds; crypto.randomUUID() and Date.now() are
\* modelled by the position of the record in the log (n records precede it):
\* fresh and increasing
attemptRecord(n, student, question, response) ==
  LET expected == conjugate(question.verb, question.tense, question.person)
  IN [id          |-> n + 1,
      ts          |-> n + 1,
      studentId   |-> student.id,
      studentName |-> student.name,
      classCode   |-> student.classCode,
      infinitive  |-> question.verb.infinitive,
      meaning     |-> question.verb.meaning,
      tense       |-> question.tense,
      person      |-> question.person,
      expected    |-> expected,
      response    |-> response,
      correct     |-> (normalize(expected) = normalize(response))]

\* what the user types into the name field
NameInputs == {<<" ">>, <<"a">>}

\* what the user types into the name and class code fields when the login
\* panel is exercised alone
LoginNameInputs == {<<" ">>, <<"a">>, <<"A">>, <<"b">>}

ClassInputs == {EmptyStr, <<"7">>}

\* the tense buttons the user clicks
TenseToggleInputs == {"presente", "preterito"}

\* what the user types into the answer field
AnswerInputs == {<<"H", "A", "B", "L", "O", " ">>, <<"h", "a", "b", "l", "e">>}

\* the values Math.random() takes, in tenths
RandomInputs == {0}

\* the most attempts a run records
MaxLog == 2

AppInitWith(r1, r2, r3) ==
  /\ verbs = STARTER_VERBS
  /\ students = <<>>
  /\ sessions = <<>>
  /\ activeStudent = Null
  /\ name = EmptyStr
  /\ classCode = EmptyStr
  /\ selectedTenses = InitialTenses
  /\ selectedPersons = PERSONS
  /\ filterTags = <<>>
  /\ current = drawQuestion(STARTER_VERBS, <<>>, InitialTenses, PERSONS, r1, r2, r3)
  /\ answer = EmptyStr
  /\ feedback = Null

AppInit == \E r1, r2, r3 \in RandomInputs : AppInitWith(r1, r2, r3)

\* the state of the application in the specifications that do not run it
AppIdle == AppInitWith(0, 0, 0)

\* LoginPanel: onChange of the name field, shown while no student is active
setName(v) ==
  /\ activeStudent = Null
  /\ name' = v
  /\ UNCHANGED <<verbs, students, sessions, activeStudent, classCode, practiceVars>>

\* LoginPanel: onChange of the class code field
setClassCode(v) ==
  /\ activeStudent = Null
  /\ classCode' = v
  /\ UNCHANGED <<verbs, students, sessions, activeStudent, name, practiceVars>>

\* LoginPanel: the Enter button
addOrSelect ==
  /\ activeStudent = Null
  /\ LET trimmed == trim(name)
         found   == findStudent(students, trimmed, classCode)
         st      == IF found # Null THEN found
                    ELSE [id |-> Len(students) + 1, name |-> trimmed, classCode |-> classCode]
     IN IF ~Truthy(trimmed)
          THEN UNCHANGED <<students, activeStudent, name>>
          ELSE /\ students' = IF found = Null THEN Append(students, st) ELSE students
               /\ activeStudent' = st
               /\ name' = EmptyStr
  /\ UNCHANGED <<verbs, sessions, classCode, practiceVars>>

\* LoginPanel: the Switch button, shown while a student is active
switchStudent ==
  /\ activeStudent # Null
  /\ activeStudent' = Null
  /\ UNCHANGED <<verbs, students, sessions, name, classCode, practiceVars>>

\* MultiSelect "Tenses": toggle
toggleTense(key) ==
  /\ selectedTenses' = toggle(selectedTenses, key)
  /\ UNCHANGED <<appVars, loginVars, selectedPersons, filterTags, current, answer, feedback>>

\* PracticePanel: onChange of the answer field, shown while there is a question
setAnswer(v) ==
  /\ current # Null
  /\ answer' = v
  /\ UNCHANGED <<appVars, loginVars, selectedTenses, selectedPersons, filterTags, current, feedback>>

\* PracticePanel: pickNext, from the Skip button
onNext(r1, r2, r3) ==
  /\ current # Null
  /\ IF Len(poolOf(verbs, filterTags)) = 0
       THEN UNCHANGED <<current, answer, feedback>>
       ELSE /\ current' = drawQuestion(verbs, filterTags, selectedTenses, selectedPersons, r1, r2, r3)
            /\ answer' = EmptyStr
            /\ feedback' = Null
  /\ UNCHANGED <<appVars, loginVars, selectedTenses, selectedPersons, filterTags>>

\* mutant of onSubmit: the new record replaces the log
onSubmit_replacesLog ==
  /\ current # Null
  /\ Len(sessions) < MaxLog
  /\ IF activeStudent = Null
       THEN UNCHANGED <<sessions, feedback>>
       ELSE LET record == attemptRecord(Len(sessions), activeStudent, current, answer)
            IN /\ feedback' = [correct |-> record.correct, expected |-> record.expected]
               /\ sessions' = <<record>>
  /\ UNCHANGED <<verbs, students, activeStudent, loginVars, selectedTenses, selectedPersons,
                 filterTags, current, answer>>

\* PracticePanel: submit of the answer form
onSubmit ==
  /\ current # Null
  /\ Len(sessions) < MaxLog
  /\ IF activeStudent = Null
       THEN UNCHANGED <<sessions, feedback>>
       ELSE LET record == attemptRecord(Len(sessions), activeStudent, current, answer)
            IN /\ feedback' = [correct |-> record.correct, expected |-> record.expected]
               /\ sessions' = <<record>> \o sessions
  /\ UNCHANGED <<verbs, students, activeStudent, loginVars, selectedTenses, selectedPersons,
                 filterTags, current, answer>>

(***************************************************************************)
(* Statistics (App.tsx 385-390, 431-445): what the two panels compute from *)
(* the attempt log when they render.                                       *)
(***************************************************************************)
\* nothing rendered yet
NoView == [none |-> TRUE]

\* a recent that is everything: mine without the slice
recentOf_everything(mine) == mine

\* mine.slice(0, 50)
recentOf(mine) == SubSeq(mine, 1, IF Len(mine) < 50 THEN Len(mine) ELSE 50)

\* StatsPanel: byTense, the map from a tense key to its total and correct
byTenseOf(recent) ==
  [t \in {recent[i].tense : i \in DOMAIN recent} |->
     [total   |-> Len(SelectSeq(recent, LAMBDA r : r.tense = t)),
      correct |-> Len(SelectSeq(recent, LAMBDA r : r.tense = t /\ r.correct))]]

\* StatsPanel: mine, total, correct, pct, byTense
statsOf(log, student) ==
  LET mine    == IF student # Null THEN SelectSeq(log, LAMBDA s : s.studentId = student.id) ELSE <<>>
      total   == Len(mine)
      correct == Len(SelectSeq(mine, LAMBDA s : s.correct))
  IN [total |-> total, correct |-> correct, pct |-> accuracy(correct, total),
      byTense |-> byTenseOf(recentOf(mine))]

\* TeacherDashboard: byStudent and rows, keyed by student id; name and class
\* code are those of the first record met, the newest
dashboardOf(log) ==
  LET ids == {log[i].studentId : i \in DOMAIN log}
      first(id) == log[CHOOSE i \in DOMAIN log :
                         log[i].studentId = id /\ \A j \in 1..(i - 1) : log[j].studentId # id]
      total(id) == Len(SelectSeq(log, LAMBDA s : s.studentId = id))
      correct(id) == Len(SelectSeq(log, LAMBDA s : s.studentId = id /\ s.correct))
  IN [rows |-> [id \in ids |->
        [name |-> first(id).studentName, classCode |-> first(id).classCode,
         total |-> total(id), correct |-> correct(id),
         accuracy |-> accuracy(correct(id), total(id))]]]

ViewIdle ==
  /\ statsView = NoView
  /\ dashboardView = NoView

\* StatsPanel renders
renderStats ==
  /\ statsView = NoView
  /\ statsView' = statsOf(sessions, activeStudent)
  /\ UNCHANGED dashboardView

\* TeacherDashboard renders
renderDashboard ==
  /\ dashboardView = NoView
  /\ dashboardView' = dashboardOf(sessions)
  /\ UNCHANGED statsView

\* The logs the panels are rendered on: a first student's right answers
\* (newest), a second student's attempts, the first student's wrong answers
\* (oldest); the questions are those of the starter bank's first verb, in the
\* two tenses selected at the start, by turns.  Every such log is what that
\* many submissions of the two students leave.
MaxTotal == 52

firstStudent == [id |-> 1, name |-> <<"a">>, classCode |-> EmptyStr]

secondStudent == [id |-> 2, name |-> <<"b">>, classCode |-> <<"7">>]

\* the question of the k-th submission
questionAt(k) ==
  drawQuestion(STARTER_VERBS, <<>>, InitialTenses, PERSONS, IF k % 2 = 1 THEN 0 ELSE 5, 0, 0)

wrongAnswer == <<"h", "a", "b", "l", "e">>

\* the log of right + others + wrong records, newest first
logOf(right, others, wrong) ==
  LET n == right + others + wrong
      \* the expected form itself, typed as the answer
      expectedAt(k) == conjugate(questionAt(k).verb, questionAt(k).tense, questionAt(k).person)
      \* the k-th record submitted, k = 1 the oldest
      submitted(k) ==
        IF k <= wrong THEN attemptRecord(k - 1, firstStudent, questionAt(k), wrongAnswer)
        ELSE IF k <= wrong + others
          THEN attemptRecord(k - 1, secondStudent, questionAt(k),
                             IF k = wrong + 1 THEN wrongAnswer ELSE expectedAt(k))
        ELSE attemptRecord(k - 1, firstStudent, questionAt(k), expectedAt(k))
  IN [i \in 1..n |-> submitted(n - i + 1)]

\* how many attempts of the second student lie in the log
OtherCounts == {0, 3}

StatsInit ==
  /\ verbs = STARTER_VERBS
  /\ students = <<firstStudent, secondStudent>>
  /\ \E right \in 0..MaxTotal : \E wrong \in 0..(MaxTotal - right) : \E others \in OtherCounts :
       sessions = logOf(right, others, wrong)
  /\ activeStudent \in {firstStudent, secondStudent, Null}
  /\ name = EmptyStr
  /\ classCode = EmptyStr
  /\ selectedTenses = InitialTenses
  /\ selectedPersons = PERSONS
  /\ filterTags = <<>>
  /\ current = questionAt(1)
  /\ answer = EmptyStr
  /\ feedback = Null
  /\ ViewIdle

(***************************************************************************)
(* The earlier App (part_000): a name field that logs in as it changes, a  *)
(* tense selection, one question at a time checked against a fixed table.  *)
(***************************************************************************)
\* const verbs (part_000 13-35), keyed by infinitive
draftVerbs ==
  ("hablar" :> (
    "presente" :> <<<<"h", "a", "b", "l", "o">>, <<"h", "a", "b", "l", "a", "s">>, <<"h", "a", "b", "l", "a">>, <<"h", "a", "b", "l", "a", "m", "o", "s">>, <<"h", "a", "b", "l", "á", "i", "s">>, <<"h", "a", "b", "l", "a", "n">>>>
    @@ "preterito" :> <<<<"h", "a", "b", "l", "é">>, <<"h", "a", "b", "l", "a", "s", "t", "e">>, <<"h", "a", "b", "l", "ó">>, <<"h", "a", "b", "l", "a", "m", "o", "s">>, <<"h", "a", "b", "l", "a", "s", "t", "e", "i", "s">>, <<"h", "a", "b", "l", "a", "r", "o", "n">>>>
    @@ "imperfecto" :> <<<<"h", "a", "b", "l", "a", "b", "a">>, <<"h", "a", "b", "l", "a", "b", "a", "s">>, <<"h", "a", "b", "l", "a", "b", "a">>, <<"h", "a", "b", "l", "á", "b", "a", "m", "o", "s">>, <<"h", "a", "b", "l", "a", "b", "a", "i", "s">>, <<"h", "a", "b", "l", "a", "b", "a", "n">>>>
    @@ "futuro" :> <<<<"h", "a", "b", "l", "a", "r", "é">>, <<"h", "a", "b", "l", "a", "r", "á", "s">>, <<"h", "a", "b", "l", "a", "r", "á">>, <<"h", "a", "b", "l", "a", "r", "e", "m", "o", "s">>, <<"h", "a", "b", "l", "a", "r", "é", "i", "s">>, <<"h", "a", "b", "l", "a", "r", "á", "n">>>>
    @@ "condicional" :> <<<<"h", "a", "b", "l", "a", "r", "í", "a">>, <<"h", "a", "b", "l", "a", "r", "í", "a", "s">>, <<"h", "a", "b", "l", "a", "r", "í", "a">>, <<"h", "a", "b", "l", "a", "r", "í", "a", "m", "o", "s">>, <<"h", "a", "b", "l", "a", "r", "í", "a", "i", "s">>, <<"h", "a", "b", "l", "a", "r", "í", "a", "n">>>>))
  @@
  ("comer" :> (
    "presente" :> <<<<"c", "o", "m", "o">>, <<"c", "o", "m", "e", "s">>, <<"c", "o", "m", "e">>, <<"c", "o", "m", "e", "m", "o", "s">>, <<"c", "o", "m", "é", "i", "s">>, <<"c", "o", "m", "e", "n">>>>
    @@ "preterito" :> <<<<"c", "o", "m", "í">>, <<"c", "o", "m", "i", "s", "t", "e">>, <<"c", "o", "m", "i", "ó">>, <<"c", "o", "m", "i", "m", "o", "s">>, <<"c", "o", "m", "i", "s", "t", "e", "i", "s">>, <<"c", "o", "m", "i", "e", "r", "o", "n">>>>
    @@ "imperfecto" :> <<<<"c", "o", "m", "í", "a">>, <<"c", "o", "m", "í", "a", "s">>, <<"c", "o", "m", "í", "a">>, <<"c", "o", "m", "í", "a", "m", "o", "s">>, <<"c", "o", "m", "í", "a", "i", "s">>, <<"c", "o", "m", "í", "a", "n">>>>
    @@ "futuro" :> <<<<"c", "o", "m", "e", "r", "é">>, <<"c", "o", "m", "e", "r", "á", "s">>, <<"c", "o", "m", "e", "r", "á">>, <<"c", "o", "m", "e", "r", "e", "m", "o", "s">>, <<"c", "o", "m", "e", "r", "é", "i", "s">>, <<"c", "o", "m", "e", "r", "á", "n">>>>
    @@ "condicional" :> <<<<"c", "o", "m", "e", "r", "í", "a">>, <<"c", "o", "m", "e", "r", "í", "a", "s">>, <<"c", "o", "m", "e", "r", "í", "a">>, <<"c", "o", "m", "e", "r", "í", "a", "m", "o", "s">>, <<"c", "o", "m", "e", "r", "í", "a", "i", "s">>, <<"c", "o", "m", "e", "r", "í", "a", "n">>>>))
  @@
  ("vivir" :> (
    "presente" :> <<<<"v", "i", "v", "o">>, <<"v", "i", "v", "e", "s">>, <<"v", "i", "v", "e">>, <<"v", "i", "v", "i", "m", "o", "s">>, <<"v", "i", "v", "í", "s">>, <<"v", "i", "v", "e", "n">>>>
    @@ "preterito" :> <<<<"v", "i", "v", "í">>, <<"v", "i", "v", "i", "s", "t", "e">>, <<"v", "i", "v", "i", "ó">>, <<"v", "i", "v", "i", "m", "o", "s">>, <<"v", "i", "v", "i", "s", "t", "e", "i", "s">>, <<"v", "i", "v", "i", "e", "r", "o", "n">>>>
    @@ "imperfecto" :> <<<<"v", "i", "v", "í", "a">>, <<"v", "i", "v", "í", "a", "s">>, <<"v", "i", "v", "í", "a">>, <<"v", "i", "v", "í", "a", "m", "o", "s">>, <<"v", "i", "v", "í", "a", "i", "s">>, <<"v", "i", "v", "í", "a", "n">>>>
    @@ "futuro" :> <<<<"v", "i", "v", "i", "r", "é">>, <<"v", "i", "v", "i", "r", "á", "s">>, <<"v", "i", "v", "i", "r", "á">>, <<"v", "i", "v", "i", "r", "e", "m", "o", "s">>, <<"v", "i", "v", "i", "r", "é", "i", "s">>, <<"v", "i", "v", "i", "r", "á", "n">>>>
    @@ "condicional" :> <<<<"v", "i", "v", "i", "r", "í", "a">>, <<"v", "i", "v", "i", "r", "í", "a", "s">>, <<"v", "i", "v", "i", "r", "í", "a">>, <<"v", "i", "v", "i", "r", "í", "a", "m", "o", "s">>, <<"v", "i", "v", "i", "r", "í", "a", "i", "s">>, <<"v", "i", "v", "i", "r", "í", "a", "n">>>>))

\* Object.keys(verbs)
draftVerbsList == <<"hablar", "comer", "vivir">>

\* persons (part_000 38-45)
draftPersons == <<"yo", "tú", "él/ella", "nosotros", "vosotros", "ellos/ellas">>

\* null, for the string-or-null activeStudent of part_000
NullName == <<"null">>

\* truthiness of a string-or-null
TruthyName(v) == v # NullName /\ v # EmptyStr

DraftInit ==
  /\ draftActiveStudent = NullName
  /\ tenses = <<"presente">>
  /\ draftVerb = "hablar"
  /\ draftPersonIndex = 0
  /\ draftAnswer = EmptyStr
  /\ draftFeedback = EmptyStr

\* what the user types or pastes into the name field of part_000
DraftNameInputs == {<<" ">>, <<"a">>}

\* the tense chips the user clicks in part_000
DraftTenseInputs == {"presente", "futuro"}

\* what the user types into the answer field of part_000
DraftAnswerInputs == {<<"H", "A", "B", "L", "O", " ">>, <<"h", "a", "b", "l", "o">>}

\* the values Math.random() takes in part_000, in tenths
DraftRandomInputs == {0, 4}

\* onChange of the name field, rendered while !activeStudent (part_000 101-112)
draftOnChangeName(v) ==
  /\ ~TruthyName(draftActiveStudent)
  /\ draftActiveStudent' = v
  /\ UNCHANGED <<tenses, draftVerb, draftPersonIndex, draftAnswer, draftFeedback>>

\* toggleTense (part_000 63-69); the chips are rendered once a student is active
toggleTense_draft(tense) ==
  /\ TruthyName(draftActiveStudent)
  /\ tenses' = toggle(tenses, tense)
  /\ UNCHANGED <<draftActiveStudent, draftVerb, draftPersonIndex, draftAnswer, draftFeedback>>

\* newQuestion (part_000 71-79)
newQuestion(r1, r2) ==
  /\ TruthyName(draftActiveStudent)
  /\ draftVerb' = randomChoice(draftVerbsList, r1)
  /\ draftPersonIndex' = (r2 * Len(draftPersons)) \div RandomScale
  /\ draftAnswer' = EmptyStr
  /\ draftFeedback' = EmptyStr
  /\ UNCHANGED <<draftActiveStudent, tenses>>

\* onChange of the answer field (part_000 153)
draftSetAnswer(v) ==
  /\ TruthyName(draftActiveStudent)
  /\ draftAnswer' = v
  /\ UNCHANGED <<draftActiveStudent, tenses, draftVerb, draftPersonIndex, draftFeedback>>

\* checkAnswer (part_000 81-99); the feedback text is kept as its parts
checkAnswer(r) ==
  /\ TruthyName(draftActiveStudent)
  /\ LET drawn       == randomChoice(tenses, r)
         randomTense == IF drawn = UndefinedKey THEN "presente" ELSE drawn
         expected    == draftVerbs[draftVerb][randomTense][draftPersonIndex + 1]
     IN draftFeedback' =
          IF toLowerCase(trim(draftAnswer)) = toLowerCase(expected)
            THEN [correct |-> TRUE, verb |-> draftVerb, person |-> draftPersons[draftPersonIndex + 1],
                  tense |-> randomTense]
            ELSE [correct |-> FALSE, expected |-> expected, tense |-> randomTense]
  /\ UNCHANGED <<draftActiveStudent, tenses, draftVerb, draftPersonIndex, draftAnswer>>

(***************************************************************************)
(* The verb manager (App.tsx 492-494, 511, 534-595)                        *)
(***************************************************************************)
\* String.prototype.includes
includes(s, sub) ==
  \E k \in 0..(Len(s) - Len(sub)) : SubSeq(s, k + 1, k + Len(sub)) = sub

\* verbs.filter((v) => v.infinitive.includes(query) || v.meaning?.includes(query))
filtered(bank, q) ==
  SelectSeq(bank, LAMBDA v : includes(v.infinitive, q) \/ includes(v.meaning, q))

\* { ...v, ...patch }
patched(v, patch) ==
  [f \in DOMAIN v \union DOMAIN patch |-> IF f \in DOMAIN patch THEN patch[f] ELSE v[f]]

\* verbs.map((v, idx) => (idx === i ? { ...v, ...patch } : v))
updatedBank(bank, i, patch) ==
  [idx \in DOMAIN bank |-> IF idx - 1 = i THEN patched(bank[idx], patch) ELSE bank[idx]]

\* verbs.filter((_, idx) => idx !== i)
reducedBank(bank, i) ==
  SubSeq(bank, 1, i) \o SubSeq(bank, i + 2, Len(bank))

\* useEffect(() => { if (!current) pickNext(); }, [verbs]) of PracticePanel,
\* run when the bank has changed
bankEffect(r1, r2, r3) ==
  IF current = Null /\ Len(poolOf(verbs', filterTags)) # 0
    THEN /\ current' = drawQuestion(verbs', filterTags, selectedTenses, selectedPersons, r1, r2, r3)
         /\ answer' = EmptyStr
         /\ feedback' = Null
    ELSE UNCHANGED <<current, answer, feedback>>

ManagerIdle ==
  /\ showManager = FALSE
  /\ query = EmptyStr
  /\ editing = Null

\* the most verbs a run keeps in the bank
MaxBank == 6

\* what the user types into the search field
QueryInputs == {EmptyStr, <<"v">>}

\* the edit made in a row: the type chosen
PatchInputs == {[type |-> "irregular"]}

\* SettingsPanel: the Manage verbs / Close verb manager button; a closed
\* manager is unmounted and starts afresh when opened
toggleManager ==
  /\ showManager' = ~showManager
  /\ query' = EmptyStr
  /\ editing' = Null
  /\ UNCHANGED <<appVars, loginVars, practiceVars>>

\* VerbManager: onChange of the search field
setQuery(q) ==
  /\ showManager
  /\ query' = q
  /\ UNCHANGED <<appVars, loginVars, practiceVars, showManager, editing>>

\* VerbManager: the Add verb button
addBlank(r1, r2, r3) ==
  /\ showManager
  /\ Len(verbs) < MaxBank
  /\ verbs' = <<BlankVerb>> \o verbs
  /\ editing' = 0
  /\ bankEffect(r1, r2, r3)
  /\ UNCHANGED <<students, sessions, activeStudent, loginVars, selectedTenses, selectedPersons,
                 filterTags, showManager, query>>

\* VerbManager: an edit in the row displayed at index i
updateAt(i, patch, r1, r2, r3) ==
  /\ showManager
  /\ i + 1 \in DOMAIN filtered(verbs, query)
  /\ verbs' = updatedBank(verbs, i, patch)
  /\ bankEffect(r1, r2, r3)
  /\ UNCHANGED <<students, sessions, activeStudent, loginVars, selectedTenses, selectedPersons,
                 filterTags, managerVars>>

\* VerbManager: the Delete button of the row displayed at index i
removeAt(i, r1, r2, r3) ==
  /\ showManager
  /\ i + 1 \in DOMAIN filtered(verbs, query)
  /\ verbs' = reducedBank(verbs, i)
  /\ bankEffect(r1, r2, r3)
  /\ UNCHANGED <<students, sessions, activeStudent, loginVars, selectedTenses, selectedPersons,
                 filterTags, managerVars>>

(***************************************************************************)
(* Persistence (App.tsx 180-198, 210-218).  A storage slot holds nothing,  *)
(* a text somebody or something put there, or the text saveLS wrote; the   *)
(* latter is kept as the value it was made from, and JSON.parse gives that *)
(* value back.  Values that went through JSON carry their JSON type.       *)
(***************************************************************************)
LS_KEYS ==
  [verbs |-> "svt_verbs_v1", students |-> "svt_students_v1",
   sessions |-> "svt_sessions_v1", activeStudent |-> "svt_active_student_v1"]

\* localStorage.getItem(key) === null
NoItem == [none |-> TRUE]

Text(chars) == [text |-> chars]

\* JSON.stringify(value)
Stringified(value) == [json |-> value]

JsonNull == [type |-> "null"]

JsonArray(items) == [type |-> "array", items |-> items]

JsonObject(fields) == [type |-> "object", fields |-> fields]

\* the active student as the JSON value it is, null or an object
studentJson(student) == IF student = Null THEN JsonNull ELSE JsonObject(student)

\* JSON.parse(raw), on the texts met here: null, [], {} and what saveLS
\* wrote; any other text is a SyntaxError
JSONparse(raw) ==
  IF "json" \in DOMAIN raw THEN [threw |-> FALSE, value |-> raw.json]
  ELSE IF raw.text = <<"n", "u", "l", "l">> THEN [threw |-> FALSE, value |-> JsonNull]
  ELSE IF raw.text = <<"[", "]">> THEN [threw |-> FALSE, value |-> JsonArray(<<>>)]
  ELSE IF raw.text = <<"{", "}">> THEN [threw |-> FALSE, value |-> JsonObject(EmptyObject)]
  ELSE [threw |-> TRUE, value |-> JsonNull]

loadLS(store, key, fallback) ==
  LET raw == store[key] IN
  IF raw = NoItem \/ raw = Text(EmptyStr) THEN fallback
  ELSE LET parsed == JSONparse(raw) IN
       IF parsed.threw THEN fallback ELSE parsed.value

\* localStorage.setItem(key, JSON.stringify(value))
saveLS(store, key, value) == [store EXCEPT ![key] = Stringified(value)]

\* the fallbacks of App's four state initialisers
fallbackOf ==
  [verbs |-> JsonArray(STARTER_VERBS), students |-> JsonArray(<<>>),
   sessions |-> JsonArray(<<>>), activeStudent |-> JsonNull]

\* the four useState(() => loadLS(...)) of App
loadAll(store) == [slot \in DOMAIN LS_KEYS |-> loadLS(store, LS_KEYS[slot], fallbackOf[slot])]

\* the four useEffect(() => saveLS(...)) of App, on the state given
saveAll(store, state) ==
  saveLS(saveLS(saveLS(saveLS(store,
    LS_KEYS.verbs, state.verbs), LS_KEYS.students, state.students),
    LS_KEYS.sessions, state.sessions), LS_KEYS.activeStudent, state.activeStudent)

\* the application's state as JSON values
stateJson(v, st, se, a) ==
  [verbs |-> JsonArray(v), students |-> JsonArray(st), sessions |-> JsonArray(se),
   activeStudent |-> studentJson(a)]

\* the first render: PracticePanel calls verbs.forEach and TeacherDashboard
\* sessions.forEach, a TypeError on anything but an array, and no error
\* boundary catches it
rendersWith(state) == state.verbs.type = "array" /\ state.sessions.type = "array"

NotLoaded == [none |-> TRUE]

\* the application is on screen, started from the state it has now, which its
\* effects have saved
Mounted ==
  /\ appStatus = "running"
  /\ loaded = stateJson(verbs, students, sessions, activeStudent)
  /\ localStorage = saveAll([k \in Range(LS_KEYS) |-> NoItem], loaded)

\* the effects that save the state an action leaves
persist ==
  /\ localStorage' = saveAll(localStorage, stateJson(verbs', students', sessions', activeStudent'))
  /\ UNCHANGED <<loaded, appStatus>>

\* what a slot holds when the page is opened
RawInputs ==
  {NoItem, Text(EmptyStr), Text(<<"{">>), Text(<<"[", "]">>), Text(<<"n", "u", "l", "l">>),
   Text(<<"{", "}">>)}

LoadInit ==
  /\ localStorage \in [Range(LS_KEYS) -> RawInputs]
  /\ loaded = NotLoaded
  /\ appStatus = "unmounted"

\* App is constructed and rendered; when the render succeeds the effects run
mount ==
  /\ appStatus = "unmounted"
  /\ loaded' = loadAll(localStorage)
  /\ IF rendersWith(loaded')
       THEN /\ appStatus' = "running"
            /\ localStorage' = saveAll(localStorage, loaded')
       ELSE /\ appStatus' = "crashed"
            /\ UNCHANGED localStorage

(***************************************************************************)
(* Specifications                                                          *)
(***************************************************************************)
InitConj == ConjInit /\ NormIdle /\ AppIdle /\ ViewIdle /\ DraftInit /\ Mounted /\ ManagerIdle

NextConj ==
  Conjugate /\ UNCHANGED <<normVars, appVars, loginVars, practiceVars, viewVars, draftVars, loadVars, managerVars>>

SpecConj == InitConj /\ [][NextConj]_vars

InitNorm == NormInit /\ ConjIdle /\ AppIdle /\ ViewIdle /\ DraftInit /\ Mounted /\ ManagerIdle

NextNorm ==
  \/ NormalizeOnce /\ UNCHANGED <<conjVars, appVars, loginVars, practiceVars, viewVars, draftVars, loadVars, managerVars>>
  \/ NormalizeAgain /\ UNCHANGED <<conjVars, appVars, loginVars, practiceVars, viewVars, draftVars, loadVars, managerVars>>

SpecNorm == InitNorm /\ [][NextNorm]_vars

\* the application of App.tsx: a student logs in by name and practises
Init == AppInit /\ ConjIdle /\ NormIdle /\ ViewIdle /\ DraftInit /\ Mounted /\ ManagerIdle

Next ==
  \/ \E v \in NameInputs : setName(v) /\ persist /\ UNCHANGED <<conjVars, normVars, viewVars, draftVars, managerVars>>
  \/ addOrSelect /\ persist /\ UNCHANGED <<conjVars, normVars, viewVars, draftVars, managerVars>>
  \/ switchStudent /\ persist /\ UNCHANGED <<conjVars, normVars, viewVars, draftVars, managerVars>>
  \/ \E key \in TenseToggleInputs : toggleTense(key) /\ persist /\ UNCHANGED <<conjVars, normVars, viewVars, draftVars, managerVars>>
  \/ \E v \in AnswerInputs : setAnswer(v) /\ persist /\ UNCHANGED <<conjVars, normVars, viewVars, draftVars, managerVars>>
  \/ \E r1, r2, r3 \in RandomInputs : onNext(r1, r2, r3) /\ persist /\ UNCHANGED <<conjVars, normVars, viewVars, draftVars, managerVars>>
  \/ onSubmit /\ persist /\ UNCHANGED <<conjVars, normVars, viewVars, draftVars, managerVars>>

Spec == Init /\ [][Next]_vars

\* the login panel of App.tsx alone, class codes included
InitLogin == AppIdle /\ ConjIdle /\ NormIdle /\ ViewIdle /\ DraftInit /\ Mounted /\ ManagerIdle

NextLogin ==
  \/ \E v \in LoginNameInputs : setName(v) /\ persist /\ UNCHANGED <<conjVars, normVars, viewVars, draftVars, managerVars>>
  \/ \E v \in ClassInputs : setClassCode(v) /\ persist /\ UNCHANGED <<conjVars, normVars, viewVars, draftVars, managerVars>>
  \/ addOrSelect /\ persist /\ UNCHANGED <<conjVars, normVars, viewVars, draftVars, managerVars>>
  \/ switchStudent /\ persist /\ UNCHANGED <<conjVars, normVars, viewVars, draftVars, managerVars>>

SpecLogin == InitLogin /\ [][NextLogin]_vars

\* the statistics panels of App.tsx, rendered on a log of attempts
InitStats == StatsInit /\ ConjIdle /\ NormIdle /\ DraftInit /\ Mounted /\ ManagerIdle

NextStats ==
  \/ renderStats /\ UNCHANGED <<conjVars, normVars, appVars, loginVars, practiceVars, draftVars, loadVars, managerVars>>
  \/ renderDashboard /\ UNCHANGED <<conjVars, normVars, appVars, loginVars, practiceVars, draftVars, loadVars, managerVars>>

SpecStats == InitStats /\ [][NextStats]_vars

\* the earlier App of part_000
InitDraft == DraftInit /\ ConjIdle /\ NormIdle /\ AppIdle /\ ViewIdle /\ Mounted /\ ManagerIdle

NextDraft ==
  \/ \E v \in DraftNameInputs : draftOnChangeName(v)
       /\ UNCHANGED <<conjVars, normVars, appVars, loginVars, practiceVars, viewVars, loadVars, managerVars>>
  \/ \E tense \in DraftTenseInputs : toggleTense_draft(tense)
       /\ UNCHANGED <<conjVars, normVars, appVars, loginVars, practiceVars, viewVars, loadVars, managerVars>>
  \/ \E r1, r2 \in DraftRandomInputs : newQuestion(r1, r2)
       /\ UNCHANGED <<conjVars, normVars, appVars, loginVars, practiceVars, viewVars, loadVars, managerVars>>
  \/ \E v \in DraftAnswerInputs : draftSetAnswer(v)
       /\ UNCHANGED <<conjVars, normVars, appVars, loginVars, practiceVars, viewVars, loadVars, managerVars>>
  \/ \E r \in DraftRandomInputs : checkAnswer(r)
       /\ UNCHANGED <<conjVars, normVars, appVars, loginVars, practiceVars, viewVars, loadVars, managerVars>>

SpecDraft == InitDraft /\ [][NextDraft]_vars

\* App.tsx is opened on whatever the four storage slots hold
InitLoad == LoadInit /\ AppIdle /\ ConjIdle /\ NormIdle /\ ViewIdle /\ DraftInit /\ ManagerIdle

NextLoad ==
  mount /\ UNCHANGED <<conjVars, normVars, appVars, loginVars, practiceVars, viewVars, draftVars,
                     managerVars>>

SpecLoad == InitLoad /\ [][NextLoad]_vars

\* the verb manager of App.tsx, every displayed row within reach
InitManager == AppIdle /\ ConjIdle /\ NormIdle /\ ViewIdle /\ DraftInit /\ Mounted /\ ManagerIdle

NextManager ==
  \/ toggleManager /\ persist /\ UNCHANGED <<conjVars, normVars, viewVars, draftVars>>
  \/ \E q \in QueryInputs : setQuery(q) /\ persist /\ UNCHANGED <<conjVars, normVars, viewVars, draftVars>>
  \/ \E r1, r2, r3 \in RandomInputs : addBlank(r1, r2, r3)
       /\ persist /\ UNCHANGED <<conjVars, normVars, viewVars, draftVars>>
  \/ \E i \in 0..(MaxBank - 1), patch \in PatchInputs, r1, r2, r3 \in RandomInputs :
       updateAt(i, patch, r1, r2, r3) /\ persist /\ UNCHANGED <<conjVars, normVars, viewVars, draftVars>>
  \/ \E i \in 0..(MaxBank - 1), r1, r2, r3 \in RandomInputs :
       removeAt(i, r1, r2, r3) /\ persist /\ UNCHANGED <<conjVars, normVars, viewVars, draftVars>>

SpecManager == InitManager /\ [][NextManager]_vars

\* the verb manager and the practice panel of App.tsx side by side, for a
\* student who has logged in: the first row of the bank is edited or deleted
\* while questions are drawn and answered
BankRowInputs == {0}

BankInit ==
  /\ verbs = STARTER_VERBS
  /\ students = <<firstStudent>>
  /\ sessions = <<>>
  /\ activeStudent = firstStudent
  /\ name = EmptyStr
  /\ classCode = EmptyStr
  /\ selectedTenses = InitialTenses
  /\ selectedPersons = PERSONS
  /\ filterTags = <<>>
  /\ \E r1, r2, r3 \in RandomInputs :
       current = drawQuestion(STARTER_VERBS, <<>>, InitialTenses, PERSONS, r1, r2, r3)
  /\ answer = EmptyStr
  /\ feedback = Null

InitBank == BankInit /\ ConjIdle /\ NormIdle /\ ViewIdle /\ DraftInit /\ Mounted /\ ManagerIdle

NextBank ==
  \/ toggleManager /\ persist /\ UNCHANGED <<conjVars, normVars, viewVars, draftVars>>
  \/ \E i \in BankRowInputs, patch \in PatchInputs, r1, r2, r3 \in RandomInputs :
       updateAt(i, patch, r1, r2, r3) /\ persist /\ UNCHANGED <<conjVars, normVars, viewVars, draftVars>>
  \/ \E i \in BankRowInputs, r1, r2, r3 \in RandomInputs :
       removeAt(i, r1, r2, r3) /\ persist /\ UNCHANGED <<conjVars, normVars, viewVars, draftVars>>
  \/ \E r1, r2, r3 \in RandomInputs : onNext(r1, r2, r3)
       /\ persist /\ UNCHANGED <<conjVars, normVars, viewVars, draftVars, managerVars>>
  \/ onSubmit /\ persist /\ UNCHANGED <<conjVars, normVars, viewVars, draftVars, managerVars>>

SpecBank == InitBank /\ [][NextBank]_vars

(***************************************************************************)
(* Claims about conjugate (checked under SpecConj).  The suffix table of   *)
(* the specification, section 4.1, is written out here once more, row by   *)
(* row as the specification gives it, independently of endings above.      *)
(***************************************************************************)
SuffixTable(tense, class) ==
  CASE tense = "presente" /\ class = "-ar" ->
         <<<<"o">>, <<"a", "s">>, <<"a">>, <<"a", "m", "o", "s">>, <<"á", "i", "s">>, <<"a", "n">>>>
    [] tense = "presente" /\ class = "-er" ->
         <<<<"o">>, <<"e", "s">>, <<"e">>, <<"e", "m", "o", "s">>, <<"é", "i", "s">>, <<"e", "n">>>>
    [] tense = "presente" /\ class = "-ir" ->
         <<<<"o">>, <<"e", "s">>, <<"e">>, <<"i", "m", "o", "s">>, <<"í", "s">>, <<"e", "n">>>>
    [] tense = "preterito" /\ class = "-ar" ->
         <<<<"é">>, <<"a", "s", "t", "e">>, <<"ó">>, <<"a", "m", "o", "s">>, <<"a", "s", "t", "e", "i", "s">>, <<"a", "r", "o", "n">>>>
    [] tense = "preterito" /\ class \in {"-er", "-ir"} ->
         <<<<"í">>, <<"i", "s", "t", "e">>, <<"i", "ó">>, <<"i", "m", "o", "s">>, <<"i", "s", "t", "e", "i", "s">>, <<"i", "e", "r", "o", "n">>>>
    [] tense = "imperfecto" /\ class = "-ar" ->
         <<<<"a", "b", "a">>, <<"a", "b", "a", "s">>, <<"a", "b", "a">>, <<"á", "b", "a", "m", "o", "s">>, <<"a", "b", "a", "i", "s">>, <<"a", "b", "a", "n">>>>
    [] tense = "imperfecto" /\ class \in {"-er", "-ir"} ->
         <<<<"í", "a">>, <<"í", "a", "s">>, <<"í", "a">>, <<"í", "a", "m", "o", "s">>, <<"í", "a", "i", "s">>, <<"í", "a", "n">>>>
    [] tense = "futuro" ->
         <<<<"é">>, <<"á", "s">>, <<"á">>, <<"e", "m", "o", "s">>, <<"é", "i", "s">>, <<"á", "n">>>>
    [] tense = "condicional" ->
         <<<<"í", "a">>, <<"í", "a", "s">>, <<"í", "a">>, <<"í", "a", "m", "o", "s">>, <<"í", "a", "i", "s">>, <<"í", "a", "n">>>>

\* person ordinal 1..6 of a person key
Ordinal(personKey) == CHOOSE i \in DOMAIN PERSONS : PERSONS[i] = personKey

Called == callResult # Pending

RegularTypes == {"-ar", "-er", "-ir"}

\* the two-character ending a class names
ClassEnding(class) ==
  CASE class = "-ar" -> <<"a", "r">> [] class = "-er" -> <<"e", "r">> [] class = "-ir" -> <<"i", "r">>

\* the last two characters of s, lower-cased (the empty string when s is shorter)
LastTwo(s) == IF Len(s) < 2 THEN EmptyStr ELSE toLowerCase(SubSeq(s, Len(s) - 1, Len(s)))

DropLastTwo(s) == SubSeq(s, 1, Len(s) - 2)

NoOverrideAtCell == ~Truthy(customFormOf(callVerb, callTense, callPerson))

StemTenses == {"presente", "preterito", "imperfecto"}

InfinitiveTenses == {"futuro", "condicional"}

\* C1: a regular verb whose infinitive ends in its class ending, with no
\* override at the cell, conjugates to stem + table suffix in presente,
\* preterito and imperfecto (stem = infinitive minus its last two characters)
\* and to infinitive + table suffix in futuro and condicional.
C1_RegularMatchesTable ==
  ( /\ Called
    /\ callVerb.type \in RegularTypes
    /\ LastTwo(callVerb.infinitive) = ClassEnding(callVerb.type)
    /\ NoOverrideAtCell )
  => callResult =
       (IF callTense \in StemTenses THEN DropLastTwo(callVerb.infinitive) ELSE callVerb.infinitive)
         \o SuffixTable(callTense, callVerb.type)[Ordinal(callPerson)]

\* comer, preterito, el/ella: comió
C1_Witness ==
  /\ callVerb = STARTER_VERBS[2]
  /\ callTense = "preterito"
  /\ callPerson = "él/ella/usted"
  /\ callResult = <<"c", "o", "m", "i", "ó">>

\* C2: a non-empty override at (tense, person) is returned verbatim whatever
\* the verb's type; with the cell absent or empty the result is that of the
\* same verb without any override table.
C2_OverridePrecedence ==
  Called =>
    IF ~NoOverrideAtCell
      THEN callResult = callVerb.custom[callTense][callPerson]
      ELSE callResult = conjugate([callVerb EXCEPT !.custom = EmptyObject], callTense, callPerson)

\* an -ar verb with an override at (presente, yo) that differs from the rule's form
C2_Witness ==
  /\ callVerb.type = "-ar"
  /\ callVerb.infinitive = <<"h", "a", "b", "l", "a", "r">>
  /\ callTense = "presente"
  /\ callPerson = "yo"
  /\ callResult = <<"s", "o", "y">>
  /\ callResult # regularConjugate(callVerb.infinitive, callVerb.type, callTense, callPerson)

\* C3: an irregular verb with no override at the cell conjugates to the
\* empty string, in all 5 tenses and 6 persons.
C3_IrregularWithoutOverrideIsEmpty ==
  (Called /\ callVerb.type = "irregular" /\ NoOverrideAtCell) => callResult = EmptyStr

\* ser has no futuro forms in the starter bank
C3_Witness ==
  /\ callVerb = STARTER_VERBS[4]
  /\ callTense = "futuro"
  /\ callPerson = "nosotros"
  /\ callResult = EmptyStr

\* C4 as stated: in futuro and condicional, with no override at the cell, the
\* result is infinitive + suffix for a verb of any class, irregular included.
C4_FutureSuffixWhateverTheClass ==
  (Called /\ callTense \in InfinitiveTenses /\ NoOverrideAtCell)
  => callResult = callVerb.infinitive \o SuffixTable(callTense, callVerb.type)[Ordinal(callPerson)]

\* C4 as amended: in futuro and condicional, with no override at the cell, the
\* result is infinitive + suffix for a verb of any of the three regular
\* classes (whichever of the three, and whatever the infinitive's ending),
\* and the empty string for a verb of the irregular class.
C4_FutureSuffixForRegularClasses ==
  (Called /\ callTense \in InfinitiveTenses /\ NoOverrideAtCell)
  => callResult =
       IF callVerb.type \in RegularTypes
         THEN callVerb.infinitive \o SuffixTable(callTense, callVerb.type)[Ordinal(callPerson)]
         ELSE EmptyStr

\* hablar filed under -ir still gives hablaremos in futuro
C4_Witness ==
  /\ callVerb.infinitive = <<"h", "a", "b", "l", "a", "r">>
  /\ callVerb.type = "-ir"
  /\ callVerb.custom = EmptyObject
  /\ callTense = "futuro"
  /\ callPerson = "nosotros"
  /\ callResult = <<"h", "a", "b", "l", "a", "r", "e", "m", "o", "s">>

\* an infinitive shorter than 2 characters, or one not ending in ar, er or ir
Malformed(infinitive) == LastTwo(infinitive) \notin {ClassEnding(c) : c \in RegularTypes}

\* C5: a verb of a regular type whose infinitive is malformed conjugates to
\* the empty string at every cell without an override.
C5_MalformedInfinitiveIsEmpty ==
  ( /\ Called
    /\ callVerb.type \in RegularTypes
    /\ Malformed(callVerb.infinitive)
    /\ NoOverrideAtCell )
  => callResult = EmptyStr

(***************************************************************************)
(* Claims about normalize (checked under SpecNorm)                         *)
(***************************************************************************)
\* C7: normalize is idempotent: normalize(normalize(x)) = normalize(x).
C7_NormalizeIdempotent == normTwice # Pending => normTwice = normOnce

\* " Ó\t a" normalizes to "ó a", and so does "ó a"
C7_Witness ==
  /\ normInput = <<" ", "Ó", "\t", " ", "a">>
  /\ normOnce = <<"ó", " ", "a">>
  /\ normTwice = <<"ó", " ", "a">>

(***************************************************************************)
(* Claims about the application (checked under Spec)                       *)
(***************************************************************************)
\* the words of a string: its maximal runs of non-blank characters
RECURSIVE WordsOf(_)
WordsOf(s) ==
  IF s = <<>> THEN <<>>
  ELSE IF IsWhitespace(Head(s)) THEN WordsOf(Tail(s))
  ELSE LET firstBlank == {i \in DOMAIN s : IsWhitespace(s[i])}
           stop == IF firstBlank = {} THEN Len(s) + 1
                   ELSE CHOOSE i \in firstBlank : \A j \in firstBlank : i <= j
       IN <<SubSeq(s, 1, stop - 1)>> \o WordsOf(SubSeq(s, stop, Len(s)))

\* two answers are the same up to case and to blanks around and between words
SameAnswer(a, b) == WordsOf(toLowerCase(a)) = WordsOf(toLowerCase(b))

\* C6: every attempt in the log is marked correct exactly when its response
\* and its expected form are the same up to case, surrounding blanks and
\* repeated blanks; an accented letter is never the same as the plain one,
\* and the feedback shown carries the same verdict.
C6_CorrectIffNormalizedEqual ==
  /\ \A i \in DOMAIN sessions :
       sessions[i].correct <=> SameAnswer(sessions[i].response, sessions[i].expected)
  /\ (feedback # Null /\ sessions # <<>>) => feedback.correct = sessions[1].correct

\* both cases in one log: "HABLO " accepted for "hablo", "hable" refused for "hablé"
C6_Witness ==
  /\ \E i \in DOMAIN sessions :
       /\ sessions[i].response = <<"H", "A", "B", "L", "O", " ">>
       /\ sessions[i].expected = <<"h", "a", "b", "l", "o">>
       /\ sessions[i].correct
  /\ \E i \in DOMAIN sessions :
       /\ sessions[i].response = <<"h", "a", "b", "l", "e">>
       /\ sessions[i].expected = <<"h", "a", "b", "l", "é">>
       /\ ~sessions[i].correct

\* C12: a step either leaves the log as it is or puts exactly one new
\* record in front of it, the older records unchanged and in their order;
\* the new record is that of the current question and the typed answer, made
\* for the active student; a submission with an active student always adds
\* one, and one without an active student adds none.
C12_LogOnlyGrowsByTheSubmittedRecord ==
  [][/\ \/ sessions' = sessions
        \/ /\ activeStudent # Null
           /\ current # Null
           /\ Len(sessions') = Len(sessions) + 1
           /\ Tail(sessions') = sessions
           /\ sessions'[1].studentId = activeStudent.id
           /\ sessions'[1].expected = conjugate(current.verb, current.tense, current.person)
           /\ sessions'[1].response = answer
           /\ sessions'[1].correct = SameAnswer(sessions'[1].expected, answer)
           /\ \A i \in DOMAIN sessions : sessions'[1].id # sessions[i].id
     /\ onSubmit => (Len(sessions') = Len(sessions) + (IF activeStudent = Null THEN 0 ELSE 1))]_vars

\* two submissions were made, the first record is still there behind the
\* second, and the student has since switched out
C12_Witness ==
  /\ Len(sessions) = 2
  /\ sessions[2].id = 1
  /\ sessions[1].id = 2
  /\ activeStudent = Null

\* C8: whatever tense buttons have been toggled, at least one tense is
\* selected.
C8_TenseSelectionNeverEmpty == Len(selectedTenses) >= 1

\* C15: no attempt in the log, and no feedback shown, is marked correct
\* when its expected form is the empty string.
C15_UnresolvedFormIsNeverCorrect ==
  /\ \A i \in DOMAIN sessions : sessions[i].expected = EmptyStr => ~sessions[i].correct
  /\ (feedback # Null /\ feedback.expected = EmptyStr) => ~feedback.correct

(***************************************************************************)
(* Claims about the login panel (checked under SpecLogin)                  *)
(***************************************************************************)
\* C16: the roster never holds two entries with the same class code and
\* the same name up to case, and the active student, when there is one, is
\* an entry of the roster: a login under the name and class code of an
\* entry selects it and adds none.
C16_RosterHasNoDuplicates ==
  /\ \A i, j \in DOMAIN students :
       (i # j /\ students[i].classCode = students[j].classCode)
         => toLowerCase(students[i].name) # toLowerCase(students[j].name)
  /\ activeStudent # Null => \E i \in DOMAIN students : students[i] = activeStudent

\* a second login selected the first entry of a roster that by then held
\* the same name under two class codes
C16_Witness ==
  /\ Len(students) >= 3
  /\ activeStudent # Null
  /\ activeStudent = students[1]
  /\ \E i, j \in DOMAIN students :
       /\ i # j
       /\ students[i].name = students[j].name
       /\ students[i].classCode # students[j].classCode

(***************************************************************************)
(* Claims about the statistics (checked under SpecStats)                   *)
(***************************************************************************)
\* correct / total as a percentage, rounded to the nearest integer, halves
\* up, in exact arithmetic; 0 for no attempts
RoundedPercent(correct, total) ==
  IF total = 0 THEN 0 ELSE (200 * correct + total) \div (2 * total)

AttemptsOf(id) == {i \in DOMAIN sessions : sessions[i].studentId = id}

CorrectAttemptsOf(id) == {i \in AttemptsOf(id) : sessions[i].correct}

ExpectedAccuracy(id) ==
  RoundedPercent(Cardinality(CorrectAttemptsOf(id)), Cardinality(AttemptsOf(id)))

\* C9: the accuracy each panel shows for a student is the rounded
\* percentage of that student's correct attempts among all of that student's
\* attempts, 0 when there are none, and an integer of 0..100.
C9_AccuracyIsRoundedRatio ==
  /\ statsView # NoView =>
       /\ statsView.pct \in 0..100
       /\ statsView.pct = IF activeStudent = Null THEN 0 ELSE ExpectedAccuracy(activeStudent.id)
  /\ dashboardView # NoView =>
       \A id \in DOMAIN dashboardView.rows :
         /\ dashboardView.rows[id].accuracy \in 0..100
         /\ dashboardView.rows[id].accuracy = ExpectedAccuracy(id)

\* the attempts of a student, and the 50 of them submitted last
RecentAttemptsOf(id) ==
  {i \in AttemptsOf(id) : Cardinality({j \in AttemptsOf(id) : sessions[j].ts > sessions[i].ts}) < 50}

C10_NoLoginWithoutSubmit ==
  [][(\E v \in DraftNameInputs : draftOnChangeName(v)) => UNCHANGED draftActiveStudent]_vars

(***************************************************************************)
(* Claims about the verb manager (checked under SpecManager)               *)
(***************************************************************************)
\* a verb the search field lets through
Shown(v) == includes(v.infinitive, query) \/ includes(v.meaning, query)

\* the place in the bank of the verb displayed in row i, rows counted from 0
PlaceOfRow(i) ==
  CHOOSE k \in DOMAIN verbs :
    Shown(verbs[k]) /\ Cardinality({j \in 1..(k - 1) : Shown(verbs[j])}) = i

\* C14: an edit or a delete made in a displayed row changes or removes the
\* verb shown in that row and nothing else of the bank, whatever the search
\* field holds.
C14_RowActionsHitTheShownVerb ==
  [][\A i \in 0..(MaxBank - 1) : \A r \in RandomInputs :
       /\ removeAt(i, r, r, r) =>
            /\ Len(verbs') = Len(verbs) - 1
            /\ \A k \in DOMAIN verbs' :
                 verbs'[k] = IF k < PlaceOfRow(i) THEN verbs[k] ELSE verbs[k + 1]
       /\ \A patch \in PatchInputs :
            updateAt(i, patch, r, r, r) =>
              /\ Len(verbs') = Len(verbs)
              /\ \A k \in DOMAIN verbs :
                   /\ k # PlaceOfRow(i) => verbs'[k] = verbs[k]
                   /\ k = PlaceOfRow(i) => \A f \in DOMAIN patch : verbs'[k][f] = patch[f]]_vars


(***************************************************************************)
(* Claims about the bank and the question (checked under SpecBank)         *)
(***************************************************************************)
\* C17: the verb of the question on screen, from which a submission
\* computes the expected form, is a verb of the bank as the bank defines it
\* now.
C17_CurrentVerbIsInTheBank ==
  current # Null => \E k \in DOMAIN verbs : verbs[k] = current.verb


(***************************************************************************)
(* Claims about persistence (checked under SpecLoad)                       *)
(***************************************************************************)
\* the slot holds the text of a value of the slot's kind: a list for the
\* verbs, students and sessions, null or an object for the active student
HoldsValidData(slot, raw) ==
  IF slot = "activeStudent"
    THEN raw = Text(<<"n", "u", "l", "l">>)
         \/ ("json" \in DOMAIN raw /\ raw.json.type \in {"null", "object"})
    ELSE raw = Text(<<"[", "]">>) \/ ("json" \in DOMAIN raw /\ raw.json.type = "array")

\* C11: opening the application never crashes it, and every slot that is
\* missing or holds anything but valid data of its kind is loaded as its
\* fallback: the starter verbs, an empty roster, an empty log, no active
\* student.
C11_BadSlotsLoadAsFallback ==
  [][mount =>
       /\ appStatus' = "running"
       /\ \A slot \in DOMAIN LS_KEYS :
            ~HoldsValidData(slot, localStorage[LS_KEYS[slot]]) => loaded'[slot] = fallbackOf[slot]]_vars

====
